---- MODULE Spec2Model ----
(***************************************************************************)
(* A model of the einthusan gateway of src/main.go: the seven gin handlers *)
(* (search, browse, actors, genre, decade, year, watch), the two scrapers  *)
(* scrapeEinthusan and scrapeWatchDetails, and the library calls they make *)
(* (strings.*, strconv.Atoi, fmt.Sprintf, sort.Slice, fuzzy.RankMatch,     *)
(* regexp.ReplaceAllString).                                               *)
(*                                                                         *)
(* A Go string is a sequence of characters, each a one-character TLA+      *)
(* string.  A literal of the source that no code looks into (the base      *)
(* origin, the pieces of a format string, a language name) is kept as one  *)
(* element, so that "&page=" in a URL is one element of the sequence.      *)
(***************************************************************************)
EXTENDS Integers, Sequences, FiniteSets, TLC

VARIABLES
    handler,    \* the route whose handler ran last ("none" before any request)
    params,     \* the request's parameters as gin delivers them
    upstream,   \* what the catalog site answered to the request's http.Get
    fetched,    \* the URLs http.Get was called with while handling the request
    status,     \* the HTTP status of the response
    body,       \* the JSON body of the response
    rwIn,       \* video-address rewrite alone: the candidate address
    rwOut,      \* video-address rewrite alone: the rewritten address
    rwDone      \* video-address rewrite alone: whether the rewrite has run

vars == <<handler, params, upstream, fetched, status, body, rwIn, rwOut, rwDone>>

----------------------------------------------------------------------------
(* Bounds of the model *)

\* the longest listing page, in list items
MaxItems == 2
\* the largest page number written out digit by digit among the page parameters
MaxPage == 2
\* the longest candidate video address of the rewrite's own specification
MaxUrlLen == 9

----------------------------------------------------------------------------
(* strings *)

\* a query parameter or an HTML attribute that is not there
Absent == [present |-> FALSE, val |-> <<>>]

Given(s) == [present |-> TRUE, val |-> s]

mainUrl == <<"https://einthusan.tv">>

HasPrefix(s, p) == Len(s) >= Len(p) /\ SubSeq(s, 1, Len(p)) = p

IsSpace(c) == c \in {" ", "\t", "\n", "\r"}

RECURSIVE TrimLeft(_)
TrimLeft(s) == IF s # <<>> /\ IsSpace(Head(s)) THEN TrimLeft(Tail(s)) ELSE s

RECURSIVE TrimRight(_)
TrimRight(s) ==
    IF s # <<>> /\ IsSpace(s[Len(s)]) THEN TrimRight(SubSeq(s, 1, Len(s) - 1)) ELSE s

TrimSpace(s) == TrimRight(TrimLeft(s))

\* the upper-case letters of the model's titles and queries
LowerOf == [c \in {"A", "G", "P"} |-> CASE c = "A" -> "a" [] c = "G" -> "g" [] c = "P" -> "p"]

RECURSIVE ToLower(_)
ToLower(s) ==
    IF s = <<>> THEN <<>>
    ELSE <<IF Head(s) \in DOMAIN LowerOf THEN LowerOf[Head(s)] ELSE Head(s)>> \o ToLower(Tail(s))

\* strings.ReplaceAll(s, " ", "+")
RECURSIVE ReplaceSpaces(_)
ReplaceSpaces(s) ==
    IF s = <<>> THEN <<>>
    ELSE <<IF Head(s) = " " THEN "+" ELSE Head(s)>> \o ReplaceSpaces(Tail(s))

Digits == <<"0", "1", "2", "3", "4", "5", "6", "7", "8", "9">>

IsDigit(c) == \E d \in 1..10 : Digits[d] = c

DigitVal(c) == (CHOOSE d \in 1..10 : Digits[d] = c) - 1

RECURSIVE DigitsValue(_)
DigitsValue(s) ==
    IF s = <<>> THEN 0 ELSE 10 * DigitsValue(SubSeq(s, 1, Len(s) - 1)) + DigitVal(s[Len(s)])

\* strconv.Atoi with its error dropped, as every handler calls it: 0 for a
\* string that is no decimal integer
Atoi(s) ==
    LET signed == s # <<>> /\ s[1] \in {"+", "-"}
        digits == IF signed THEN Tail(s) ELSE s
    IN  IF digits = <<>> \/ \E i \in 1..Len(digits) : ~IsDigit(digits[i])
        THEN 0
        ELSE IF signed /\ s[1] = "-" THEN 0 - DigitsValue(digits) ELSE DigitsValue(digits)

\* the %d verb of fmt.Sprintf
RECURSIVE Itoa(_)
Itoa(n) ==
    IF n < 0 THEN <<"-">> \o Itoa(0 - n)
    ELSE IF n < 10 THEN <<Digits[n + 1]>>
    ELSE Itoa(n \div 10) \o <<Digits[(n % 10) + 1]>>

\* c.DefaultQuery(key, def): the default only when the key is not in the query
DefaultQuery(p, def) == IF p.present THEN p.val ELSE def

\* c.Query(key) and goquery's Attr with its second result dropped
ValueOf(p) == IF p.present THEN p.val ELSE <<>>

----------------------------------------------------------------------------
(* the catalog site: what one http.Get can come back with *)

NoError == ""

\* one <li> of #UIMovieSummary > ul, as the three selectors of the listing
\* scraper see it: the text under div.block2 > a.title > h3, the href of
\* div.block2 > a.title and the src of div.block1 > a > img
Item(h3, href, src) == [h3 |-> h3, href |-> href, src |-> src]

Items ==
    { Item(<<" ", "A", "p", "i">>, Given(<<"/movie/123">>), Given(<<"/", "/", "cdn.example/x.jpg">>)),
      Item(<<"A", "p", "i", "s">>, Absent,
           Given(<<"h", "t", "t", "p", "s", ":", "/", "/", "cdn.example/x.jpg">>)),
      Item(<<"G", "a", "p">>, Given(<<"/movie/9">>), Absent),
      Item(<<"A", "p", "i">>, Given(<<"/movie/7">>), Given(<<"/", "rel.jpg">>)),
      Item(<<" ", "\n">>, Given(<<"/movie/4">>), Given(<<"/", "/", "cdn.example/y.jpg">>)),
      Item(<<>>, Absent, Absent) }

RECURSIVE SeqsUpTo(_, _)
SeqsUpTo(S, n) ==
    IF n = 0 THEN {<<>>}
    ELSE LET shorter == SeqsUpTo(S, n - 1)
         IN  shorter \cup {Append(s, x) : s \in {t \in shorter : Len(t) = n - 1}, x \in S}

ListingPages == SeqsUpTo(Items, MaxItems)

NetError == [kind |-> "neterr", err |-> "dial tcp: i/o timeout"]
ReadError == [kind |-> "readerr", err |-> "unexpected EOF"]

ListingOutcomes ==
    {[kind |-> o.kind, err |-> o.err, items |-> <<>>] : o \in {NetError, ReadError}}
        \cup {[kind |-> "page", err |-> NoError, items |-> d] : d \in ListingPages}

NoUpstream == [kind |-> "none", err |-> NoError, items |-> <<>>]

----------------------------------------------------------------------------
(* scrapeEinthusan *)

\* the protocol-relative image source given the scheme http
FullImgPlainHttp(imgSrc) ==
    IF HasPrefix(imgSrc, <<"/", "/">>) THEN <<"h", "t", "t", "p", ":">> \o imgSrc ELSE imgSrc

\* the protocol-relative image source made absolute
FullImg(imgSrc) ==
    IF HasPrefix(imgSrc, <<"/", "/">>) THEN <<"h", "t", "t", "p", "s", ":">> \o imgSrc ELSE imgSrc

\* the detail page's address
PageUrl(href) == mainUrl \o href

\* the callback with the title tested before it is trimmed
EachItemUntrimmed(s) ==
    LET title == TrimSpace(s.h3)
        href == ValueOf(s.href)
        imgSrc == ValueOf(s.src)
    IN  IF s.h3 # <<>>
        THEN <<[ImgUrl |-> FullImg(imgSrc), PageUrl |-> PageUrl(href), Title |-> title]>>
        ELSE <<>>

\* the callback of Each on one list item: the entries it appends
EachItem(s) ==
    LET title == TrimSpace(s.h3)
        href == ValueOf(s.href)
        imgSrc == ValueOf(s.src)
    IN  IF title # <<>>
        THEN <<[ImgUrl |-> FullImg(imgSrc), PageUrl |-> PageUrl(href), Title |-> title]>>
        ELSE <<>>

RECURSIVE EachItems(_)
EachItems(items) ==
    IF items = <<>> THEN <<>> ELSE EachItem(Head(items)) \o EachItems(Tail(items))

\* a scraper that tries the fetch a second time
ScrapeGetsTwice(url) == <<url, url>>

\* the calls of http.Get one run of a scraper makes
ScrapeGets(url) == <<url>>

\* gets: the URLs fetched; movies and err: the two results
scrapeEinthusan(url, outcome) ==
    IF outcome.kind # "page"
    THEN [gets |-> ScrapeGets(url), movies |-> <<>>, err |-> outcome.err]
    ELSE [gets |-> ScrapeGets(url), movies |-> EachItems(outcome.items), err |-> NoError]

----------------------------------------------------------------------------
(* the relevance ranking of the search handler *)

\* the loop of fuzzysearch's rank: each character of source is looked for in
\* what is left of target, the characters skipped are counted
RECURSIVE RankLoop(_, _, _)
RankLoop(source, target, runeDiff) ==
    IF source = <<>> THEN runeDiff + Len(target)
    ELSE LET at == {i \in 1..Len(target) : target[i] = Head(source)}
         IN  IF at = {} THEN -1
             ELSE LET i == CHOOSE k \in at : \A l \in at : k <= l
                  IN  RankLoop(Tail(source), SubSeq(target, i + 1, Len(target)), runeDiff + i - 1)

\* fuzzy.RankMatch: -1 for no match, else the number of characters of target
\* that are not matched (0 for equal strings)
RankMatch(source, target) ==
    IF Len(target) < Len(source) THEN -1
    ELSE IF Len(target) = Len(source) /\ source = target THEN 0
    ELSE RankLoop(source, target, 0)

\* the less function handed to sort.Slice
Less(query, a, b) ==
    RankMatch(ToLower(query), ToLower(a.Title)) > RankMatch(ToLower(query), ToLower(b.Title))

Permute(s, p) == [k \in 1..Len(s) |-> s[p[k]]]

RECURSIVE AsSeq(_, _)
AsSeq(f, n) == IF n = 0 THEN <<>> ELSE Append(AsSeq(f, n - 1), f[n])

\* sort.Slice: "The sort is not guaranteed to be stable": any arrangement of
\* the slice in which no element is less than one before it
SortSlice(movies, query) ==
    {out \in {AsSeq(Permute(movies, p), Len(movies)) : p \in Permutations(1..Len(movies))} :
        \A i, j \in 1..Len(out) : i < j => ~Less(query, out[j], out[i])}

----------------------------------------------------------------------------
(* the request parameters the model sends *)

\* a path parameter is any text without "/": it may itself hold "&page="
Languages == {<<"tamil">>, <<"tamil", "&page=", "7">>}

Queries ==
    {Absent, Given(<<>>), Given(<<"a", "p", "i">>), Given(<<"A">>), Given(<<"x", " ", "y">>)}

Categories ==
    {Absent, Given(<<"p", "o", "p", "u", "l", "a", "r">>),
     Given(<<"P", "o", "p", "u", "l", "a", "r">>), Given(<<"t", "o", "p">>)}

PageParams ==
    {Absent} \cup {Given(Itoa(n)) : n \in 0..MaxPage}
        \cup {Given(<<"1", "2">>), Given(<<"-", "2">>), Given(<<"+", "2">>), Given(<<"x">>),
              Given(<<>>), Given(<<"2", "x">>)}

ActorCodes == {<<"1023">>, <<"77">>}

Decades == {<<"1990">>, <<"2010">>}

Years == {<<"2025">>, <<"1999">>}

GenreQuery(action, comedy, romance, storyline, performance, ratecount) ==
    [action |-> action, comedy |-> comedy, romance |-> romance, storyline |-> storyline,
     performance |-> performance, ratecount |-> ratecount]

GenreQueries ==
    {GenreQuery(Absent, Absent, Absent, Absent, Absent, Absent),
     GenreQuery(Given(<<"4">>), Absent, Absent, Absent, Absent, Given(<<"5">>)),
     GenreQuery(Given(<<"1">>), Given(<<"2">>), Given(<<"3">>), Given(<<"4">>), Given(<<"0">>),
                Given(<<"10">>))}

----------------------------------------------------------------------------
(* the listing handlers *)

\* page, _ := strconv.Atoi(c.DefaultQuery("page", "1"))
PageOf(pageParam) == Atoi(DefaultQuery(pageParam, <<"1">>))

\* the page appended from page 1 on
AppendPageFromOne(targetUrl, page) ==
    IF page >= 1 THEN targetUrl \o <<"&page=">> \o Itoa(page) ELSE targetUrl

\* if page > 1 { targetUrl = fmt.Sprintf("%s&page=%d", targetUrl, page) }
AppendPage(targetUrl, page) ==
    IF page > 1 THEN targetUrl \o <<"&page=">> \o Itoa(page) ELSE targetUrl

ErrorReply(r) == [fetched |-> r.gets, status |-> 500, body |-> [error |-> r.err]]

OkReply(r, json) == [fetched |-> r.gets, status |-> 200, body |-> json]

\* the early return of the search handler left out
EmptyQueryIgnored(query) == FALSE

\* whether the search handler answers without scraping
EmptyQuery(query) == query = <<>>

SearchUrl(language, query) ==
    mainUrl \o <<"/movie/results/?lang=">> \o language \o <<"&query=">> \o ReplaceSpaces(query)

\* the search handler: the replies it can give, one for each arrangement
\* sort.Slice can leave movies in
SearchReplies(language, query, outcome) ==
    IF EmptyQuery(query)
    THEN {[fetched |-> <<>>, status |-> 200,
           body |-> [language |-> language, movies |-> <<>>, q |-> query]]}
    ELSE LET r == scrapeEinthusan(SearchUrl(language, query), outcome)
         IN  IF r.err # NoError THEN {ErrorReply(r)}
             ELSE {OkReply(r, [language |-> language, movies |-> sorted, q |-> query]) :
                      sorted \in SortSlice(r.movies, query)}

BrowseUrl(language, category) ==
    IF category = <<"p", "o", "p", "u", "l", "a", "r">>
    THEN mainUrl \o <<"/movie/results/?find=Popularity&lang=">> \o language
             \o <<"&ptype=view&tp=alltime">>
    ELSE mainUrl \o <<"/movie/results/?find=Recent&lang=">> \o language

BrowseResponse(category, language, movies, page) ==
    [category |-> category, has_more |-> Len(movies) > 0, language |-> language,
     movies |-> movies, next_page |-> page + 1, page |-> page]

BrowseReply(language, categoryParam, pageParam, outcome) ==
    LET category == ToLower(DefaultQuery(categoryParam, <<"r", "e", "c", "e", "n", "t">>))
        page == PageOf(pageParam)
        r == scrapeEinthusan(AppendPage(BrowseUrl(language, category), page), outcome)
    IN  IF r.err # NoError THEN ErrorReply(r)
        ELSE OkReply(r, BrowseResponse(category, language, r.movies, page))

ActorsUrl(language, actorCode) ==
    mainUrl \o <<"/movie/results/?find=Cast&id=">> \o actorCode \o <<"&lang=">> \o language
        \o <<"&role=">>

ActorsReply(language, actorCode, pageParam, outcome) ==
    LET page == PageOf(pageParam)
        r == scrapeEinthusan(AppendPage(ActorsUrl(language, actorCode), page), outcome)
    IN  IF r.err # NoError THEN ErrorReply(r)
        ELSE OkReply(r, [actor_id |-> actorCode, actor_name |-> <<"Unknown Actor">>,
                         has_more |-> Len(r.movies) > 0, language |-> language,
                         movies |-> r.movies, next_page |-> page + 1, page |-> page])

GenreUrl(language, g) ==
    mainUrl \o <<"/movie/results/?lang=">> \o language \o <<"&find=Rating&action=">>
        \o DefaultQuery(g.action, <<"0">>) \o <<"&comedy=">> \o DefaultQuery(g.comedy, <<"0">>)
        \o <<"&romance=">> \o DefaultQuery(g.romance, <<"0">>)
        \o <<"&storyline=">> \o DefaultQuery(g.storyline, <<"0">>)
        \o <<"&performance=">> \o DefaultQuery(g.performance, <<"0">>)
        \o <<"&ratecount=">> \o DefaultQuery(g.ratecount, <<"1">>)

GenreReply(language, g, pageParam, outcome) ==
    LET page == PageOf(pageParam)
        r == scrapeEinthusan(AppendPage(GenreUrl(language, g), page), outcome)
    IN  IF r.err # NoError THEN ErrorReply(r)
        ELSE OkReply(r, BrowseResponse(<<"Genre">>, language, r.movies, page))

DecadeUrl(language, decade) ==
    mainUrl \o <<"/movie/results/?decade=">> \o decade \o <<"&find=Decade&lang=">> \o language

DecadeReply(language, decade, pageParam, outcome) ==
    LET page == PageOf(pageParam)
        r == scrapeEinthusan(AppendPage(DecadeUrl(language, decade), page), outcome)
    IN  IF r.err # NoError THEN ErrorReply(r)
        ELSE OkReply(r, BrowseResponse(<<"Decade: ">> \o decade, language, r.movies, page))

YearUrl(language, year) ==
    mainUrl \o <<"/movie/results/?find=Year&lang=">> \o language \o <<"&year=">> \o year

YearReply(language, year, pageParam, outcome) ==
    LET page == PageOf(pageParam)
        r == scrapeEinthusan(AppendPage(YearUrl(language, year), page), outcome)
    IN  IF r.err # NoError THEN ErrorReply(r)
        ELSE OkReply(r, BrowseResponse(<<"Year: ">> \o year, language, r.movies, page))

----------------------------------------------------------------------------
(* the watch page and scrapeWatchDetails *)

\* a watch page as the selectors of scrapeWatchDetails see it: the text of
\* the first h3 of the summary block, the src of its image, and the two
\* attributes of #UIVideoPlayer
WatchPage(h3, src, mp4, hls) ==
    [kind |-> "page", err |-> NoError, h3 |-> h3, src |-> src, mp4 |-> mp4, hls |-> hls]

ExampleAddress ==
    <<"h", "t", "t", "p", "s", ":", "/", "/", "1", "9", "2", ".", "1", "6", "8", ".", "1",
    "0", ".", "5", "/", "p", "a", "t", "h", "/", "v", "i", "d", "e", "o", ".", "m", "p",
    "4">>

WatchPages ==
    {WatchPage(h3, src, mp4, hls) :
        h3 \in {<<>>, <<" ", "A", "p", "i", "\n">>},
        src \in {Absent, Given(<<"/", "/", "c", "/", "x">>),
                 Given(<<"h", "t", "t", "p", ":", "/", "/", "c", "/", "x">>)},
        mp4 \in {Absent, Given(<<>>), Given(ExampleAddress),
                 Given(<<"/", "/", "1", ".", "2", ".", "3", ".", "4", "/", "v">>)},
        hls \in {Absent, Given(<<"h", "t", "t", "p", "s", ":", "/", "/", "c", "/", "m">>),
                 Given(<<"/", "/", "1", "0", ".", "0", ".", "0", ".", "1", "/", "m">>)}}

WatchOutcomes ==
    {[kind |-> o.kind, err |-> o.err, h3 |-> <<>>, src |-> Absent, mp4 |-> Absent, hls |-> Absent] :
        o \in {NetError, ReadError}} \cup WatchPages

WatchUrls == {Absent, Given(<<>>), Given(<<"https://einthusan.tv/movie/watch/7f3a/?lang=tamil">>)}

Letters ==
    {"a", "b", "c", "d", "e", "f", "g", "h", "i", "j", "k", "l", "m", "n", "o", "p", "q", "r",
     "s", "t", "u", "v", "w", "x", "y", "z", "A", "G", "P"}

\* a character of the class \w
IsWordChar(c) == IsDigit(c) \/ c \in Letters \/ c = "_"

IsWordAt(s, k) == k \in 1..Len(s) /\ IsWordChar(s[k])

\* \b before position i (i = Len(s) + 1: at the end)
WordBoundary(s, i) == IsWordAt(s, i - 1) # IsWordAt(s, i)

DigitsAt(s, i, n) == i + n - 1 <= Len(s) /\ \A k \in i..(i + n - 1) : IsDigit(s[k])

\* \d{1,3}\. from position i: the positions it can end before
AfterGroupDot(s, i) ==
    {i + n + 1 : n \in {m \in 1..3 : DigitsAt(s, i, m) /\ i + m <= Len(s) /\ s[i + m] = "."}}

\* \d{1,3}\b from position i: the positions it can end before
AfterLastGroup(s, i) ==
    {i + n : n \in {m \in 1..3 : DigitsAt(s, i, m) /\ WordBoundary(s, i + m)}}

\* the pattern without its leading \b
MatchEndUnbounded(s, i) ==
    LET e3 == UNION {AfterGroupDot(s, k) :
                  k \in UNION {AfterGroupDot(s, j) : j \in AfterGroupDot(s, i)}}
        e4 == UNION {AfterLastGroup(s, j) : j \in e3}
    IN  IF e4 = {} THEN 0 ELSE CHOOSE e \in e4 : \A f \in e4 : f <= e

\* the match of \b\d{1,3}\.\d{1,3}\.\d{1,3}\.\d{1,3}\b that starts at position
\* i: the position it ends before, the longest first as the groups are
\* greedy, or 0 when there is none
MatchEnd(s, i) ==
    IF ~WordBoundary(s, i) THEN 0
    ELSE LET e3 == UNION {AfterGroupDot(s, k) :
                       k \in UNION {AfterGroupDot(s, j) : j \in AfterGroupDot(s, i)}}
             e4 == UNION {AfterLastGroup(s, j) : j \in e3}
         IN  IF e4 = {} THEN 0 ELSE CHOOSE e \in e4 : \A f \in e4 : f <= e

Cdn == <<"c", "d", "n", "1", ".", "e", "i", "n", "t", "h", "u", "s", "a", "n", ".", "i",
       "o">>

\* re.ReplaceAllString(s, "cdn1.einthusan.io") from position i on: the
\* matches are taken from left to right and do not overlap
RECURSIVE ReplaceFrom(_, _)
ReplaceFrom(s, i) ==
    IF i > Len(s) THEN <<>>
    ELSE IF MatchEnd(s, i) # 0 THEN Cdn \o ReplaceFrom(s, MatchEnd(s, i))
    ELSE <<s[i]>> \o ReplaceFrom(s, i + 1)

ReplaceAllString(s) == ReplaceFrom(s, 1)

\* the scheme put before a protocol-relative video address
WithScheme(finalUrl) ==
    IF HasPrefix(finalUrl, <<"/", "/">>) THEN <<"h", "t", "t", "p", "s", ":">> \o finalUrl
    ELSE finalUrl

\* finalUrl as scrapeWatchDetails computes it from mp4Link
FinalUrl(mp4Link) ==
    IF mp4Link # <<>> THEN ReplaceAllString(WithScheme(mp4Link)) ELSE mp4Link

\* the manifest preferred to the direct link
Mp4LinkManifestFirst(mp4, hls) == IF ValueOf(hls) = <<>> THEN ValueOf(mp4) ELSE ValueOf(hls)

\* the direct link, and the manifest when the direct link is empty
Mp4Link(mp4, hls) == IF ValueOf(mp4) = <<>> THEN ValueOf(hls) ELSE ValueOf(mp4)

\* the poster of the watch page
WatchImg(imgSrc) ==
    IF HasPrefix(imgSrc, <<"/", "/">>) THEN <<"h", "t", "t", "p", "s", ":">> \o imgSrc ELSE imgSrc

scrapeWatchDetails(url, outcome) ==
    IF outcome.kind # "page"
    THEN [gets |-> ScrapeGets(url), data |-> <<>>, err |-> outcome.err]
    ELSE [gets |-> ScrapeGets(url),
          data |-> [title |-> TrimSpace(outcome.h3),
                    video_url |-> FinalUrl(Mp4Link(outcome.mp4, outcome.hls)),
                    img_url |-> WatchImg(ValueOf(outcome.src))],
          err |-> NoError]

\* the check of the url parameter left out
MissingUrlIgnored(pageUrl) == FALSE

\* whether the watch handler rejects the request
MissingUrl(pageUrl) == pageUrl = <<>>

WatchReply(pageUrl, outcome) ==
    IF MissingUrl(pageUrl)
    THEN [fetched |-> <<>>, status |-> 400, body |-> [error |-> "URL parameter is required"]]
    ELSE LET r == scrapeWatchDetails(pageUrl, outcome)
         IN  IF r.err # NoError THEN ErrorReply(r) ELSE OkReply(r, r.data)

----------------------------------------------------------------------------
(* the gateway: one action for each route.  A behaviour is the handling of  *)
(* one request: the handlers share no state, so requests do not interact.  *)

Init ==
    /\ handler = "none"
    /\ params = <<>>
    /\ upstream = NoUpstream
    /\ fetched = <<>>
    /\ status = 0
    /\ body = <<>>
    /\ rwIn = <<>>
    /\ rwOut = <<>>
    /\ rwDone = FALSE

\* the handler h answers the request p with reply, the site having answered
\* outcome to the fetch (if one was made)
Respond(h, p, outcome, reply) ==
    /\ handler' = h
    /\ params' = p
    /\ upstream' = IF reply.fetched = <<>> THEN NoUpstream ELSE outcome
    /\ fetched' = reply.fetched
    /\ status' = reply.status
    /\ body' = reply.body
    /\ UNCHANGED <<rwIn, rwOut, rwDone>>

Search ==
    /\ handler = "none"
    /\ \E language \in Languages, q \in Queries, outcome \in ListingOutcomes :
           \E reply \in SearchReplies(language, ValueOf(q), outcome) :
               Respond("search", [language |-> language, q |-> q], outcome, reply)

Browse ==
    /\ handler = "none"
    /\ \E language \in Languages, category \in Categories, page \in PageParams,
          outcome \in ListingOutcomes :
           Respond("browse", [language |-> language, category |-> category, page |-> page],
                   outcome, BrowseReply(language, category, page, outcome))

Actors ==
    /\ handler = "none"
    /\ \E language \in Languages, actorcode \in ActorCodes, page \in PageParams,
          outcome \in ListingOutcomes :
           Respond("actors", [language |-> language, actorcode |-> actorcode, page |-> page],
                   outcome, ActorsReply(language, actorcode, page, outcome))

Genre ==
    /\ handler = "none"
    /\ \E language \in Languages, g \in GenreQueries, page \in PageParams,
          outcome \in ListingOutcomes :
           Respond("genre", [language |-> language, genre |-> g, page |-> page],
                   outcome, GenreReply(language, g, page, outcome))

Decade ==
    /\ handler = "none"
    /\ \E language \in Languages, decade \in Decades, page \in PageParams,
          outcome \in ListingOutcomes :
           Respond("decade", [language |-> language, decade |-> decade, page |-> page],
                   outcome, DecadeReply(language, decade, page, outcome))

Year ==
    /\ handler = "none"
    /\ \E language \in Languages, year \in Years, page \in PageParams,
          outcome \in ListingOutcomes :
           Respond("year", [language |-> language, year |-> year, page |-> page],
                   outcome, YearReply(language, year, page, outcome))

Watch ==
    /\ handler = "none"
    /\ \E url \in WatchUrls, outcome \in WatchOutcomes :
           Respond("watch", [url |-> url], outcome, WatchReply(ValueOf(url), outcome))

Next == Search \/ Browse \/ Actors \/ Genre \/ Decade \/ Year \/ Watch

Spec == Init /\ [][Next]_vars

----------------------------------------------------------------------------
(* the video-address rewrite on its own: every short candidate address *)

AddressChars == {"1", ".", "a"}

Candidates ==
    {pre \o s : pre \in {<<>>, <<"/", "/">>}, s \in SeqsUpTo(AddressChars, MaxUrlLen)}
        \cup {ExampleAddress}

RewriteInit ==
    /\ handler = "none"
    /\ params = <<>>
    /\ upstream = NoUpstream
    /\ fetched = <<>>
    /\ status = 0
    /\ body = <<>>
    /\ rwIn \in Candidates
    /\ rwOut = <<>>
    /\ rwDone = FALSE

Rewrite ==
    /\ ~rwDone
    /\ rwOut' = FinalUrl(rwIn)
    /\ rwDone' = TRUE
    /\ UNCHANGED <<handler, params, upstream, fetched, status, body, rwIn>>

RewriteNext == Rewrite

RewriteSpec == RewriteInit /\ [][RewriteNext]_vars

----------------------------------------------------------------------------
(* Definitions the properties below are stated with *)

PagedHandlers == {"browse", "actors", "genre", "decade", "year"}

SearchSucceeded == handler = "search" /\ status = 200 /\ fetched # <<>>

\* the fuzzy-match score of an entry against the lower-cased phrase
Score(query, m) == RankMatch(ToLower(query), ToLower(m.Title))

\* the characters of a appear in b in order, not necessarily side by side
RECURSIVE IsSubsequence(_, _)
IsSubsequence(a, b) ==
    IF a = <<>> THEN TRUE
    ELSE IF b = <<>> THEN FALSE
    ELSE IF Head(a) = Head(b) THEN IsSubsequence(Tail(a), Tail(b))
    ELSE IsSubsequence(a, Tail(b))

NonBlank(text) == \E k \in 1..Len(text) : ~IsSpace(text[k])

AllSpace(text) == \A k \in 1..Len(text) : IsSpace(text[k])

\* title is text without the white space around it
IsTrimOf(title, text) ==
    /\ title # <<>> => ~IsSpace(title[1]) /\ ~IsSpace(title[Len(title)])
    /\ \E a \in 0..Len(text) :
           /\ a + Len(title) <= Len(text)
           /\ SubSeq(text, a + 1, a + Len(title)) = title
           /\ AllSpace(SubSeq(text, 1, a))
           /\ AllSpace(SubSeq(text, a + Len(title) + 1, Len(text)))

\* the list items with a title, in document order
RECURSIVE Titled(_)
Titled(items) ==
    IF items = <<>> THEN <<>>
    ELSE (IF NonBlank(Head(items).h3) THEN <<Head(items)>> ELSE <<>>) \o Titled(Tail(items))

----------------------------------------------------------------------------
(* C1: the ranking of the search handler is a stable sort *)

\* C1: for any listing and any phrase, the movies of a search response are
\* a permutation of the extracted entries in which any two entries of equal
\* score keep the order they had in the document.
C1_SortIsStablePermutation ==
    SearchSucceeded =>
        LET query == ValueOf(params.q)
            extracted == EachItems(upstream.items)
            out == body.movies
        IN  /\ Len(out) = Len(extracted)
            /\ \E p \in Permutations(1..Len(extracted)) :
                   /\ \A k \in 1..Len(out) : out[k] = extracted[p[k]]
                   /\ \A i, j \in 1..Len(out) :
                          i < j /\ Score(query, out[i]) = Score(query, out[j]) => p[i] < p[j]

----------------------------------------------------------------------------
(* C2: the ranking puts the best match first *)

\* C2: in a search response a title equal to the phrase (case-insensitively)
\* stands before every title that only contains the phrase as a
\* subsequence, and every matched title stands before every title with the
\* no-match score.
C2_BestMatchFirst ==
    SearchSucceeded =>
        LET phrase == ToLower(ValueOf(params.q))
            out == body.movies
            Exact(m) == ToLower(m.Title) = phrase
            Contains(m) == IsSubsequence(phrase, ToLower(m.Title))
        IN  \A i, j \in 1..Len(out) :
                /\ Exact(out[i]) /\ Contains(out[j]) /\ ~Exact(out[j]) => i < j
                /\ Contains(out[i]) /\ Score(ValueOf(params.q), out[j]) = -1 => i < j

----------------------------------------------------------------------------
(* C3: a search without a phrase *)

\* C3: a search request whose q is empty is answered 200 with no movies,
\* language and q echoed, and nothing is fetched for it.
C3_EmptyQueryAnsweredWithoutFetch ==
    handler = "search" /\ ValueOf(params.q) = <<>> =>
        /\ status = 200
        /\ body = [language |-> params.language, movies |-> <<>>, q |-> <<>>]
        /\ fetched = <<>>

C3_Witness ==
    /\ handler = "search"
    /\ params.q = Given(<<>>)
    /\ status = 200
    /\ body.movies = <<>>
    /\ fetched = <<>>

----------------------------------------------------------------------------
(* C4: a watch request without a url *)

\* C4: a watch request with no url is answered 400 and nothing is fetched
\* for it; a fetch is made only for a request with a url.
C4_MissingUrlRejectedWithoutFetch ==
    handler = "watch" =>
        /\ ValueOf(params.url) = <<>> => status = 400 /\ fetched = <<>>
        /\ fetched # <<>> => ValueOf(params.url) # <<>>

C4_Witness ==
    /\ handler = "watch"
    /\ params.url = Absent
    /\ status = 400
    /\ fetched = <<>>

----------------------------------------------------------------------------
(* C5: the page parameter of the upstream URL *)

\* the URL the request was translated to
TargetUrl == fetched[1]

\* how many times "&page=" stands in a URL
RECURSIVE PageMarks(_)
PageMarks(url) ==
    IF url = <<>> THEN 0 ELSE (IF Head(url) = "&page=" THEN 1 ELSE 0) + PageMarks(Tail(url))

EndsWith(s, suffix) ==
    Len(s) >= Len(suffix) /\ SubSeq(s, Len(s) - Len(suffix) + 1, Len(s)) = suffix

\* the text the caller supplied that goes into the URL as it is
SuppliedText ==
    CASE handler = "browse" -> params.language
      [] handler = "actors" -> params.actorcode \o params.language
      [] handler = "genre" ->
            params.language \o ValueOf(params.genre.action) \o ValueOf(params.genre.comedy)
                \o ValueOf(params.genre.romance) \o ValueOf(params.genre.storyline)
                \o ValueOf(params.genre.performance) \o ValueOf(params.genre.ratecount)
      [] handler = "decade" -> params.decade \o params.language
      [] handler = "year" -> params.language \o params.year

\* C5 as stated: for each paged intent and every page value N the URL ends
\* with "&page=N" if and only if N > 1, and for N <= 1 it holds no "&page="
\* at all.
C5_PageParameterIffAboveOne ==
    handler \in PagedHandlers =>
        LET N == PageOf(params.page)
        IN  /\ EndsWith(TargetUrl, <<"&page=">> \o Itoa(N)) <=> N > 1
            /\ N <= 1 => PageMarks(TargetUrl) = 0

\* C5 as amended: for each paged intent and every page value N the handler
\* appends exactly "&page=N" to the URL if and only if N > 1; for N <= 1 it
\* appends nothing, so that the only "&page=" of the URL are that suffix and
\* those the caller's own parameters hold.
C5_PageAppendedIffAboveOne ==
    handler \in PagedHandlers =>
        LET N == PageOf(params.page)
        IN  /\ N > 1 => /\ EndsWith(TargetUrl, <<"&page=">> \o Itoa(N))
                        /\ PageMarks(TargetUrl) = PageMarks(SuppliedText) + 1
            /\ N <= 1 => PageMarks(TargetUrl) = PageMarks(SuppliedText)

C5_Witness ==
    /\ handler = "year"
    /\ params.page = Given(<<"1", "2">>)
    /\ params.language = <<"tamil">>
    /\ TargetUrl = <<"https://einthusan.tv", "/movie/results/?find=Year&lang=", "tamil",
                    "&year=", "2025", "&page=", "1", "2">>

----------------------------------------------------------------------------
(* C6: the rewrite of the video address *)

\* text is four groups of one to three digits with a dot between them
IsDottedQuad(text) ==
    LET dots == {k \in 1..Len(text) : text[k] = "."}
    IN  /\ Cardinality(dots) = 3
        /\ \A k \in (1..Len(text)) \ dots : IsDigit(text[k])
        /\ \A k \in dots \cup {0} :
               LET after == {d \in dots \cup {Len(text) + 1} : d > k}
                   next == CHOOSE d \in after : \A e \in after : d <= e
               IN  next - k - 1 \in 1..3

\* the dotted quads of s between word boundaries, each as <<first, last>>
QuadSpans(s) ==
    {span \in (1..Len(s)) \X (1..Len(s)) :
        /\ span[2] - span[1] \in 6..14
        /\ IsDottedQuad(SubSeq(s, span[1], span[2]))
        /\ ~IsWordAt(s, span[1] - 1)
        /\ ~IsWordAt(s, span[2] + 1)}

Overlap(a, b) == a[1] <= b[2] /\ b[1] <= a[2]

\* s from position i on with the spans of chosen replaced by the CDN name
RECURSIVE Substituted(_, _, _)
Substituted(s, chosen, i) ==
    IF i > Len(s) THEN <<>>
    ELSE IF \E span \in chosen : span[1] = i
    THEN LET span == CHOOSE c \in chosen : c[1] = i
         IN  <<"c", "d", "n", "1", ".", "e", "i", "n", "t", "h", "u", "s", "a", "n", ".", "i", "o">>
                 \o Substituted(s, chosen, span[2] + 1)
    ELSE <<s[i]>> \o Substituted(s, chosen, i + 1)

\* out is s with dotted quads replaced by the CDN name and the rest as it
\* was: the quads replaced do not overlap, every other quad of s overlaps
\* one of them, and no quad is left in out
QuadsReplaced(s, out) ==
    /\ \E chosen \in SUBSET QuadSpans(s) :
           /\ \A a, b \in chosen : a # b => ~Overlap(a, b)
           /\ \A q \in QuadSpans(s) : \E c \in chosen : Overlap(q, c)
           /\ out = Substituted(s, chosen, 1)
    /\ QuadSpans(out) = {}

ExampleRewritten ==
    <<"h", "t", "t", "p", "s", ":", "/", "/", "c", "d", "n", "1", ".", "e", "i", "n", "t",
    "h", "u", "s", "a", "n", ".", "i", "o", "/", "p", "a", "t", "h", "/", "v", "i", "d",
    "e", "o", ".", "m", "p", "4">>

\* C6 as stated: every dotted quad of a candidate video address is replaced
\* by cdn1.einthusan.io and the rest is untouched, and an address without a
\* dotted quad is returned unchanged.
C6_QuadsReplacedElseUnchanged ==
    rwDone =>
        /\ QuadsReplaced(rwIn, rwOut)
        /\ QuadSpans(rwIn) = {} => rwOut = rwIn

\* C6 as amended: a leading "//" of a candidate video address is first
\* rewritten to "https://"; in the result every dotted quad is replaced by
\* cdn1.einthusan.io and the rest is untouched, and an address without a
\* dotted quad is returned with no other change than that of its leading
\* "//".
C6_QuadsReplacedAfterScheme ==
    rwDone =>
        LET s == IF Len(rwIn) >= 2 /\ rwIn[1] = "/" /\ rwIn[2] = "/"
                 THEN <<"h", "t", "t", "p", "s", ":">> \o rwIn
                 ELSE rwIn
        IN  /\ QuadsReplaced(s, rwOut)
            /\ QuadSpans(s) = {} => rwOut = s
            /\ rwIn = ExampleAddress => rwOut = ExampleRewritten

C6_Witness ==
    /\ rwDone
    /\ rwIn = <<"/", "/", "1", "1", ".", "1", ".", "1", ".", "1">>
    /\ rwOut = <<"h", "t", "t", "p", "s", ":", "/", "/", "c", "d", "n", "1", ".", "e", "i", "n",
                 "t", "h", "u", "s", "a", "n", ".", "i", "o">>

----------------------------------------------------------------------------
(* C7: the listing extractor *)

\* C7: the movies of a listing response are the list items with a
\* non-blank title, one entry for each, in document order, the title
\* trimmed; a parseable page is answered 200 whatever its items lack.
C7_ListingIsTitledItemsInOrder ==
    handler \in PagedHandlers /\ upstream.kind = "page" =>
        /\ status = 200
        /\ Len(body.movies) = Len(Titled(upstream.items))
        /\ \A k \in 1..Len(body.movies) :
               /\ body.movies[k].Title # <<>>
               /\ IsTrimOf(body.movies[k].Title, Titled(upstream.items)[k].h3)

C7_Witness ==
    /\ handler = "browse"
    /\ status = 200
    /\ Len(upstream.items) = 2
    /\ upstream.items[1].h3 = <<" ", "\n">>
    /\ upstream.items[2].h3 = <<"A", "p", "i", "s">>
    /\ ~upstream.items[2].href.present
    /\ Len(body.movies) = 1
    /\ body.movies[1].Title = <<"A", "p", "i", "s">>

----------------------------------------------------------------------------
(* C8: no retries *)

\* C8: a request makes at most one upstream fetch, and when the fetch fails
\* it is answered 500 with the error's message, after that one fetch.
C8_OneFetchAndFailureIsFinal ==
    /\ Len(fetched) <= 1
    /\ upstream.kind \in {"neterr", "readerr"} =>
           /\ Len(fetched) = 1
           /\ status = 500
           /\ body = [error |-> upstream.err]

C8_Witness ==
    /\ handler = "watch"
    /\ upstream.kind = "neterr"
    /\ Len(fetched) = 1
    /\ status = 500
    /\ body = [error |-> "dial tcp: i/o timeout"]

----------------------------------------------------------------------------
(* C9: the video source of the watch page *)

\* C9 as stated: the video address comes from data-mp4-link when that
\* attribute is present, otherwise from data-hls-link; with neither the
\* answer is 200 with an empty video_url and with title and img_url from
\* the page.
C9_DirectLinkWhenPresent ==
    handler = "watch" /\ upstream.kind = "page" =>
        /\ status = 200
        /\ body.video_url =
               FinalUrl(IF upstream.mp4.present THEN upstream.mp4.val
                        ELSE IF upstream.hls.present THEN upstream.hls.val ELSE <<>>)
        /\ ~upstream.mp4.present /\ ~upstream.hls.present =>
               /\ body.video_url = <<>>
               /\ IsTrimOf(body.title, upstream.h3)
               /\ upstream.src.present => body.img_url # <<>>

\* C9 as amended: the video address comes from data-mp4-link when that
\* attribute is present and not empty, otherwise from data-hls-link; with
\* neither the answer is 200 with an empty video_url and with title and
\* img_url from the page.
C9_DirectLinkWhenNotEmpty ==
    handler = "watch" /\ upstream.kind = "page" =>
        /\ status = 200
        /\ body.video_url =
               FinalUrl(IF upstream.mp4.present /\ upstream.mp4.val # <<>> THEN upstream.mp4.val
                        ELSE IF upstream.hls.present THEN upstream.hls.val ELSE <<>>)
        /\ ~upstream.mp4.present /\ ~upstream.hls.present =>
               /\ body.video_url = <<>>
               /\ IsTrimOf(body.title, upstream.h3)
               /\ upstream.src.present => body.img_url # <<>>

C9_Witness ==
    /\ handler = "watch"
    /\ status = 200
    /\ ~upstream.mp4.present
    /\ ~upstream.hls.present
    /\ body.video_url = <<>>
    /\ body.title = <<"A", "p", "i">>
    /\ body.img_url = <<"h", "t", "t", "p", "s", ":", "/", "/", "c", "/", "x">>

----------------------------------------------------------------------------
(* C10: image and link normalisation *)

StartsWithHttp(s) == Len(s) >= 4 /\ SubSeq(s, 1, 4) = <<"h", "t", "t", "p">>

StartsWithSlashes(s) == Len(s) >= 2 /\ SubSeq(s, 1, 2) = <<"/", "/">>

\* img is the image source src as the records carry it
ImageNormalized(src, img) ==
    /\ StartsWithSlashes(src) => img = <<"h", "t", "t", "p", "s", ":">> \o src
    /\ StartsWithHttp(src) => img = src

\* C10: in every record an image source that starts with "//" has "https:"
\* put before it, one that starts with "http" is unchanged, and the page
\* URL is https://einthusan.tv followed by the item's link.
C10_ImagesAndLinksNormalized ==
    /\ handler \in PagedHandlers /\ status = 200 =>
           /\ Len(body.movies) = Len(Titled(upstream.items))
           /\ \A k \in 1..Len(body.movies) :
                  LET item == Titled(upstream.items)[k]
                      src == IF item.src.present THEN item.src.val ELSE <<>>
                      href == IF item.href.present THEN item.href.val ELSE <<>>
                  IN  /\ ImageNormalized(src, body.movies[k].ImgUrl)
                      /\ body.movies[k].PageUrl = <<"https://einthusan.tv">> \o href
    /\ handler = "watch" /\ status = 200 /\ upstream.src.present =>
           ImageNormalized(upstream.src.val, body.img_url)

C10_Witness ==
    /\ handler = "genre"
    /\ status = 200
    /\ Len(body.movies) = 2
    /\ body.movies[1].ImgUrl = <<"h", "t", "t", "p", "s", ":", "/", "/", "cdn.example/x.jpg">>
    /\ body.movies[1].PageUrl = <<"https://einthusan.tv", "/movie/123">>
    /\ upstream.items[1].src.val = <<"/", "/", "cdn.example/x.jpg">>
    /\ upstream.items[2].src.val = <<"h", "t", "t", "p", "s", ":", "/", "/", "cdn.example/x.jpg">>
    /\ body.movies[2].ImgUrl = upstream.items[2].src.val

====
